---------------------------- MODULE Spec2Model ----------------------------
(***************************************************************************)
(* A model of @titanpl/micro-gravity (src/src/index.ts, src/src/setup.ts): *)
(* discovery of TitanPL extensions in a project tree, their dependency     *)
(* ordering, and their activation into the shared namespace t.             *)
(*                                                                         *)
(* JavaScript runs one synchronous section at a time.  The variable        *)
(* running names the call whose synchronous section is executing; the      *)
(* steps of that section are separate actions of the model, and no other   *)
(* call takes a step until the section reaches an await or returns.        *)
(***************************************************************************)
EXTENDS Integers, Sequences, FiniteSets, TLC

VARIABLES
    fs,               \* the file system: the project tree, fixed during a run
    gT,               \* globalThis.t      ("undefined" or the namespace object)
    gTitan,           \* globalThis.Titan
    ns,               \* the namespace object each bootstrap call constructed
    loadedLibraries,  \* module-level list of library handles
    pc,               \* control point of each bootstrap call
    verbose,          \* options.verbose of each bootstrap call
    logged,           \* messages each call passed to its log closure
    order,            \* bootstrap's local `sorted`
    idx,              \* position of the for loop over `sorted`
    act,              \* loadExtension: the declared functions still to bind
    modules,          \* the module cache of import(): one state per entry module
    running,          \* owner of the executing synchronous section
    dpc,              \* control point inside discoverExtensions
    found,            \* discoverExtensions: the Map `found`, in insertion order
    scan,             \* scanNodeModules: the recursion stack
    extensions,       \* value returned by discoverExtensions
    spc,              \* control point inside sortByDependencies
    sorted,           \* sortByDependencies: `sorted`
    visited,          \* sortByDependencies: `visited`
    visiting,         \* sortByDependencies: `visiting`
    vstack,           \* sortByDependencies: the recursion stack of visit
    roots,            \* sortByDependencies: roots still to visit
    listed            \* <<value>> returned by the last getLoadedExtensions call

discVars == <<dpc, found, scan, extensions>>
sortVars == <<spc, sorted, visited, visiting, vstack, roots>>
callVars == <<gT, gTitan, ns, loadedLibraries, pc, verbose, order, idx, act, modules>>
vars == <<fs, gT, gTitan, ns, loadedLibraries, pc, verbose, logged, order, idx,
          act, modules, running, dpc, found, scan, extensions, spc, sorted, visited,
          visiting, vstack, roots, listed>>

-----------------------------------------------------------------------------
(* Bounds of the model.                                                    *)

\* entries of the dependency tree in the name-collision family
MaxNodes == 3
\* entries of the dependency tree in the fault family
MaxFaultNodes == 2
\* declared dependency names per package.json
MaxDeps == 2
\* entries of the dependency tree in the family of unreadable directories
MaxUnreadableNodes == 3

\* the bootstrap calls a run may make
Calls == {"c1", "c2"}
\* extension names used by the discovery families
ExtNames == {"x", "y"}
\* names, in discovery order, of the extensions of the ordering family
SortNames == <<"a", "b", "c">>

-----------------------------------------------------------------------------
(* Sequences.                                                              *)

Last(s) == s[Len(s)]
Front(s) == SubSeq(s, 1, Len(s) - 1)
Range(s) == {s[i] : i \in 1..Len(s)}
\* the elements i..j of s that exist
Slice(s, i, j) ==
    IF i > Len(s) THEN <<>> ELSE SubSeq(s, i, IF j > Len(s) THEN Len(s) ELSE j)

RECURSIVE SortedSeq(_)
SortedSeq(S) ==
    IF S = {} THEN <<>>
    ELSE LET m == CHOOSE x \in S : \A y \in S : x <= y
         IN  <<m>> \o SortedSeq(S \ {m})

RECURSIVE Dedup(_)
\* keys of an object literal built by spreading: first insertion keeps its place
Dedup(s) ==
    IF s = <<>> THEN <<>>
    ELSE LET r == Dedup(Front(s))
         IN  IF Last(s) \in Range(r) THEN r ELSE Append(r, Last(s))

\* sequences without repetition over S, of length at most k
RECURSIVE SeqsUpTo(_, _)
SeqsUpTo(S, k) ==
    IF k = 0 THEN {<<>>}
    ELSE LET shorter == SeqsUpTo(S, k - 1)
         IN  shorter \cup {Append(s, x) : s \in shorter, x \in S}

DistinctSeqs(S, k) ==
    {s \in SeqsUpTo(S, k) : Cardinality(Range(s)) = Len(s)}

-----------------------------------------------------------------------------
(* The file system.  A directory is a node: Root is rootDir, every other   *)
(* node is an entry of its parent's node_modules directory (or of its      *)
(* parent itself when the parent is a scope directory).  readdirSync lists *)
(* the entries of a directory in increasing node order.  For a directory d *)
(* fs.titan[d] is its titan.json, fs.pkg[d] its package.json, fs.ls[d] the *)
(* state of its dependency directory, fs.dll[d] whether the library file   *)
(* its manifest names exists, fs.main[d] the entry module file its         *)
(* manifest names: "none" when there is no such file, else what the module *)
(* does when it is evaluated.                                              *)

Root == 0

NoNative == [path |-> "", functions |-> <<>>, v8 |-> {}]
\* titan.json: st is "absent" (no file), "invalid" (JSON.parse throws) or "ok";
\* name "" is a missing (falsy) name; main "" is an undeclared main
NoTitan == [st |-> "absent", name |-> "", main |-> "", native |-> NoNative]
BadTitan == [st |-> "invalid", name |-> "", main |-> "", native |-> NoNative]
PlainTitan(nm) == [st |-> "ok", name |-> nm, main |-> "", native |-> NoNative]

\* package.json
NoPkg == [st |-> "absent", dependencies |-> <<>>, peerDependencies |-> <<>>,
          devDependencies |-> <<>>]
BadPkg == [st |-> "invalid", dependencies |-> <<>>, peerDependencies |-> <<>>,
           devDependencies |-> <<>>]

Nodes(f) == 1..f.n
Dirs(f) == 0..f.n
Children(f, d) == SortedSeq({i \in Nodes(f) : f.parent[i] = d})

\* ancestors of a node, the node included
RECURSIVE Ancestors(_, _)
Ancestors(f, i) == IF i = Root THEN {Root} ELSE {i} \cup Ancestors(f, f.parent[i])

\* the entry lies directly in rootDir/node_modules, or in a scope directory there
RECURSIVE TopLevel(_, _)
TopLevel(f, i) ==
    /\ i # Root
    /\ \/ f.parent[i] = Root
       \/ /\ f.parent[i] # Root
          /\ f.kind[f.parent[i]] = "scope"
          /\ TopLevel(f, f.parent[i])

\* the entry of rootDir/node_modules a node lies under
RECURSIVE TopAncestor(_, _)
TopAncestor(f, i) == IF f.parent[i] = Root THEN i ELSE TopAncestor(f, f.parent[i])

ValidManifest(tj) == tj.st = "ok" /\ tj.name # ""

-----------------------------------------------------------------------------
(* Families of project trees.  An entry of a dependency directory is       *)
(*   "hidden"  : its name starts with '.'  (this covers .bin)              *)
(*   "file"    : statSync succeeds and it is not a directory               *)
(*   "staterr" : statSync throws                                           *)
(*   "scope"   : a directory whose name starts with '@'                    *)
(*   "pkg"     : any other directory                                       *)

Desc(k, tj, th) == [kind |-> k, titan |-> tj, throws |-> th]

\* listing state of d's dependency directory (of d itself for a scope):
\* "absent" (existsSync false), "throws" (readdirSync throws) or "ok"
LsOf(n, parent, desc, rootThrows, d) ==
    LET throws == IF d = Root THEN rootThrows ELSE desc[d].throws
        kind == IF d = Root THEN "pkg" ELSE desc[d].kind
    IN  IF kind \notin {"pkg", "scope"} THEN "absent"
        ELSE IF throws THEN "throws"
        ELSE IF kind = "scope" \/ \E i \in 1..n : parent[i] = d THEN "ok"
        ELSE "absent"

MkFS(n, parent, desc, rootTitan, rootThrows, pkgs, dlls, mains) ==
    [n      |-> n,
     parent |-> parent,
     kind   |-> [i \in 1..n |-> desc[i].kind],
     titan  |-> [d \in 0..n |-> IF d = Root THEN rootTitan ELSE desc[d].titan],
     pkg    |-> pkgs,
     ls     |-> [d \in 0..n |-> LsOf(n, parent, desc, rootThrows, d)],
     dll    |-> dlls,
     main   |-> mains]

\* no library file and no entry module file in any directory
NoFiles(n) == [d \in 0..n |-> FALSE]
NoModules(n) == [d \in 0..n |-> "none"]

\* entries lie in the root, in a package or in a scope, below a readable listing
WellFormedTree(n, parent, desc) ==
    \A i \in 1..n :
        /\ parent[i] < i
        /\ parent[i] # Root =>
              /\ desc[parent[i]].kind \in {"pkg", "scope"}
              /\ ~desc[parent[i]].throws

\* fs is a tree of at most N entries drawn from Menu; an unreadable root
\* dependency directory is drawn only for the tree without entries
TreeFS(N, Menu, RootTitans, RootThrows) ==
    \E n \in 0..N :
      \E rt \in RootTitans, rth \in (IF n = 0 THEN RootThrows ELSE {FALSE}) :
        \E parent \in [1..n -> 0..(n - 1)], desc \in [1..n -> Menu] :
          /\ WellFormedTree(n, parent, desc)
          /\ fs = MkFS(n, parent, desc, rt, rth,
                       [d \in 0..n |-> NoPkg], NoFiles(n), NoModules(n))

\* family for name collisions: packages and scopes, manifests valid or absent
CollisionMenu ==
    {Desc("scope", NoTitan, FALSE)} \cup
    {Desc("pkg", tj, FALSE) : tj \in {NoTitan} \cup {PlainTitan(x) : x \in ExtNames}}
CollisionFS ==
    TreeFS(MaxNodes, CollisionMenu,
           {NoTitan} \cup {PlainTitan(x) : x \in ExtNames}, {FALSE})

\* family for faults: every kind of entry, malformed manifests, unreadable
\* directories
FaultMenu ==
    {Desc(k, NoTitan, FALSE) : k \in {"hidden", "file", "staterr"}} \cup
    {Desc("scope", NoTitan, th) : th \in BOOLEAN} \cup
    {Desc("pkg", tj, th) :
        tj \in {NoTitan, BadTitan, PlainTitan(""), PlainTitan("x")}, th \in BOOLEAN}
FaultFS ==
    TreeFS(MaxFaultNodes, FaultMenu,
           {NoTitan, BadTitan, PlainTitan(""), PlainTitan("x")}, BOOLEAN)

DiscoverFS == CollisionFS \/ FaultFS

\* family for unreadable directories: a directory whose listing throws, and
\* an entry whose statSync throws, may have entries below it
UnreadableMenu ==
    {Desc("staterr", NoTitan, FALSE)} \cup
    {Desc("scope", NoTitan, th) : th \in BOOLEAN} \cup
    {Desc("pkg", NoTitan, FALSE)} \cup
    {Desc("pkg", PlainTitan("x"), th) : th \in BOOLEAN}
UnreadableFS ==
    \E n \in 0..MaxUnreadableNodes :
      \E rt \in {NoTitan, PlainTitan("x")}, rth \in BOOLEAN :
        \E parent \in [1..n -> 0..(n - 1)], desc \in [1..n -> UnreadableMenu] :
          /\ \A i \in 1..n : parent[i] < i
          /\ fs = MkFS(n, parent, desc, rt, rth,
                       [d \in 0..n |-> NoPkg], NoFiles(n), NoModules(n))

-----------------------------------------------------------------------------
(* The namespace object: def holds the keys whose value is not undefined,  *)
(* fn those whose value is a function, falsy those whose value is falsy    *)
(* (0, "", null, false), made those whose value is a bag that line 246     *)
(* created, props the properties assigned on the values, as                *)
(* <<key, property, implementation>>.                                      *)

\* const t = { log: (...args) => ..., native: {} }
NewNamespace ==
    [def |-> {"log", "native"}, fn |-> {"log"}, props |-> {}, falsy |-> {},
     made |-> {}]
\* no namespace object yet
NoNamespace == [def |-> {}, fn |-> {}, props |-> {}, falsy |-> {}, made |-> {}]

\* t[key] = value, for a value that is a new empty bag ("made"), a bag from
\* elsewhere ("bag") or a falsy value ("falsy"): the old value and the
\* properties on it are gone
SetKey(n, key, what) ==
    [def   |-> n.def \cup {key},
     fn    |-> n.fn \ {key},
     props |-> {p \in n.props : p[1] # key},
     falsy |-> IF what = "falsy" THEN n.falsy \cup {key} ELSE n.falsy \ {key},
     made  |-> IF what = "made" THEN n.made \cup {key} ELSE n.made \ {key}]

\* t[key] || {} takes the value t[key]
Truthy(n, key) == key \in n.def \ n.falsy


\* LogTo with one log function shared by every caller of discoverExtensions
LogTo_Shared(msg) == [logged EXCEPT !["c1"] = Append(@, msg)]

\* log(msg) of the running section: bootstrap's closure records the message
\* (and hands it to the logger when verbose); getLoadedExtensions passes a
\* function that does nothing
LogTo(msg) ==
    IF running \in Calls THEN [logged EXCEPT ![running] = Append(@, msg)]
    ELSE logged

\* what the logger of call c received
Delivered(c) == IF verbose[c] THEN logged[c] ELSE <<>>

-----------------------------------------------------------------------------
(* discoverExtensions and scanNodeModules.                                 *)

Ext(nm, d, tj, loc) == [name |-> nm, path |-> d, titanJson |-> tj, isLocal |-> loc]

\* found.has(name)
Has(m, nm) == \E i \in 1..Len(m) : m[i].name = nm
\* found.set(name, e): a new key goes last, a present key keeps its place
MapSet(m, e) ==
    IF Has(m, e.name)
    THEN [i \in 1..Len(m) |-> IF m[i].name = e.name THEN e ELSE m[i]]
    ELSE Append(m, e)

\* ScanCall that lists the entries of a directory although reading it fails
ScanCall_Lists(st, d) ==
    IF fs.ls[d] # "absent" THEN Append(st, [dir |-> d, rest |-> Children(fs, d)])
    ELSE st

\* a call scanNodeModules(d, found, log) made with recursion stack st:
\* readdirSync throws and the call returns, or a frame lists d's entries
ScanCall(st, d) ==
    IF fs.ls[d] = "ok" THEN Append(st, [dir |-> d, rest |-> Children(fs, d)])
    ELSE st

\* the stack with the current entry of the top frame consumed
NextEntry(st) == [st EXCEPT ![Len(st)].rest = Tail(@)]

\* lines 81-99: the manifest of the project root
DiscoverLocal ==
    /\ running # "none"
    /\ dpc = "local"
    /\ LET tj == fs.titan[Root] IN
         IF tj.st = "absent" THEN UNCHANGED <<found, logged>>
         ELSE IF tj.st = "invalid"
         THEN /\ logged' = LogTo(<<"Warning: Invalid titan.json in project root">>)
              /\ UNCHANGED found
         ELSE IF tj.name # ""
         THEN /\ found' = MapSet(found, Ext(tj.name, Root, tj, TRUE))
              /\ logged' = LogTo(<<"Found local extension", tj.name>>)
         ELSE UNCHANGED <<found, logged>>
    /\ dpc' = "nm"
    /\ UNCHANGED <<fs, callVars, running, scan, extensions, sortVars, listed>>

\* lines 102-105: scan node_modules when it exists
DiscoverNodeModules ==
    /\ running # "none"
    /\ dpc = "nm"
    /\ scan' = IF fs.ls[Root] # "absent" THEN ScanCall(<<>>, Root) ELSE <<>>
    /\ dpc' = "scan"
    /\ UNCHANGED <<fs, callVars, running, logged, found, extensions, sortVars, listed>>

\* lines 124-132: hidden entries, entries that are no directory, stat failures
ScanSkip ==
    /\ dpc = "scan" /\ scan # <<>> /\ Last(scan).rest # <<>>
    /\ fs.kind[Head(Last(scan).rest)] \in {"hidden", "file", "staterr"}
    /\ scan' = NextEntry(scan)
    /\ UNCHANGED <<fs, callVars, running, logged, dpc, found, extensions, sortVars, listed>>

\* lines 135-138: a scope directory is entered, never registered
ScanScope ==
    /\ dpc = "scan" /\ scan # <<>> /\ Last(scan).rest # <<>>
    /\ fs.kind[Head(Last(scan).rest)] = "scope"
    /\ scan' = ScanCall(NextEntry(scan), Head(Last(scan).rest))
    /\ UNCHANGED <<fs, callVars, running, logged, dpc, found, extensions, sortVars, listed>>

\* Register without the check found.has(name): the last one found wins
Register_Overwrite(m, tj, d) ==
    IF tj.name # "" THEN MapSet(m, Ext(tj.name, d, tj, FALSE)) ELSE m

\* lines 147-156: the registration of a candidate's manifest
Register(m, tj, d) ==
    IF tj.name # "" /\ ~Has(m, tj.name)
    THEN MapSet(m, Ext(tj.name, d, tj, FALSE))
    ELSE m

\* lines 141-166: a candidate directory: its manifest, then its nested
\* node_modules
ScanPackage ==
    /\ dpc = "scan" /\ scan # <<>> /\ Last(scan).rest # <<>>
    /\ fs.kind[Head(Last(scan).rest)] = "pkg"
    /\ LET d == Head(Last(scan).rest)
           tj == fs.titan[d]
       IN  /\ IF tj.st = "absent" THEN UNCHANGED <<found, logged>>
              ELSE IF tj.st = "invalid"
              THEN /\ logged' = LogTo(<<"Warning: Invalid titan.json in", d>>)
                   /\ UNCHANGED found
              ELSE /\ found' = Register(found, tj, d)
                   /\ logged' = IF found' # found
                                THEN LogTo(<<"Found extension", tj.name>>)
                                ELSE logged
           /\ scan' = IF fs.ls[d] # "absent" THEN ScanCall(NextEntry(scan), d)
                      ELSE NextEntry(scan)
    /\ UNCHANGED <<fs, callVars, running, dpc, extensions, sortVars, listed>>

\* the for loop of scanNodeModules is over: the call returns
ScanReturn ==
    /\ dpc = "scan" /\ scan # <<>> /\ Last(scan).rest = <<>>
    /\ scan' = Front(scan)
    /\ UNCHANGED <<fs, callVars, running, logged, dpc, found, extensions, sortVars, listed>>

\* line 107: return Array.from(found.values())
DiscoverReturn ==
    /\ dpc = "scan" /\ scan = <<>>
    /\ extensions' = found
    /\ dpc' = "done"
    /\ UNCHANGED <<fs, callVars, running, logged, found, scan, sortVars, listed>>

Discover ==
    \/ DiscoverLocal
    \/ DiscoverNodeModules
    \/ ScanSkip
    \/ ScanScope
    \/ ScanPackage
    \/ ScanReturn
    \/ DiscoverReturn

-----------------------------------------------------------------------------
(* bootstrap, lines 323-346.                                               *)

\* Invoke that keeps the namespace object the global t already holds
Invoke_Reuse(c) ==
    /\ running = "none"
    /\ pc[c] = "idle"
    /\ \E v \in BOOLEAN : verbose' = [verbose EXCEPT ![c] = v]
    /\ ns' = [ns EXCEPT ![c] = IF gT \in Calls THEN ns[gT] ELSE NewNamespace]
    /\ gT' = c
    /\ gTitan' = c
    /\ pc' = [pc EXCEPT ![c] = "discover"]
    /\ running' = c
    /\ dpc' = "local"
    /\ found' = <<>>
    /\ scan' = <<>>
    /\ UNCHANGED <<fs, loadedLibraries, logged, order, idx, act, modules,
                   extensions, sortVars, listed>>

\* Invoke that binds the global t only
Invoke_TitanUnbound(c) ==
    /\ running = "none"
    /\ pc[c] = "idle"
    /\ \E v \in BOOLEAN : verbose' = [verbose EXCEPT ![c] = v]
    /\ ns' = [ns EXCEPT ![c] = NewNamespace]
    /\ gT' = c
    /\ pc' = [pc EXCEPT ![c] = "discover"]
    /\ running' = c
    /\ dpc' = "local"
    /\ found' = <<>>
    /\ scan' = <<>>
    /\ UNCHANGED <<fs, gTitan, loadedLibraries, logged, order, idx, act, modules,
                   extensions, sortVars, listed>>

\* lines 324-346: the options, the namespace, the two globals, and the call
\* of discoverExtensions; all of it runs before the first await
Invoke(c) ==
    /\ running = "none"
    /\ pc[c] = "idle"
    /\ \E v \in BOOLEAN : verbose' = [verbose EXCEPT ![c] = v]
    /\ ns' = [ns EXCEPT ![c] = NewNamespace]
    /\ gT' = c
    /\ gTitan' = c
    /\ pc' = [pc EXCEPT ![c] = "discover"]
    /\ running' = c
    /\ dpc' = "local"
    /\ found' = <<>>
    /\ scan' = <<>>
    /\ UNCHANGED <<fs, loadedLibraries, logged, order, idx, act, modules,
                   extensions, sortVars, listed>>

\* lines 371-373: getLoadedExtensions() runs discoverExtensions with a log
\* function that does nothing, and returns its result
GetLoadedExtensions ==
    /\ running = "none"
    /\ running' = "gle"
    /\ dpc' = "local"
    /\ found' = <<>>
    /\ scan' = <<>>
    /\ UNCHANGED <<fs, callVars, logged, extensions, sortVars, listed>>

GetLoadedReturn ==
    /\ running = "gle"
    /\ dpc = "done"
    /\ listed' = <<extensions>>
    /\ dpc' = "off"
    /\ running' = "none"
    /\ UNCHANGED <<fs, callVars, logged, found, scan, extensions, sortVars>>

InitWith(F) ==
    /\ F
    /\ gT = "undefined"
    /\ gTitan = "undefined"
    /\ ns = [c \in Calls |-> NoNamespace]
    /\ loadedLibraries = <<>>
    /\ pc = [c \in Calls |-> "idle"]
    /\ verbose = [c \in Calls |-> FALSE]
    /\ logged = [c \in Calls |-> <<>>]
    /\ order = [c \in Calls |-> <<>>]
    /\ idx = [c \in Calls |-> 0]
    /\ act = [c \in Calls |-> <<>>]
    /\ modules = [d \in Dirs(fs) |-> "unloaded"]
    /\ running = "none"
    /\ dpc = "off"
    /\ found = <<>>
    /\ scan = <<>>
    /\ extensions = <<>>
    /\ spc = "off"
    /\ sorted = <<>>
    /\ visited = {}
    /\ visiting = {}
    /\ vstack = <<>>
    /\ roots = <<>>
    /\ listed = <<>>

\* discovery alone, as bootstrap runs it, over the discovery families
InitDiscover == InitWith(DiscoverFS)
NextDiscover == Invoke("c1") \/ GetLoadedExtensions \/ GetLoadedReturn \/ Discover
SpecDiscover == InitDiscover /\ [][NextDiscover]_vars


\* BootstrapDiscovered without the return for an empty result
BootstrapDiscovered_NoReturn(c) ==
    /\ running = c
    /\ pc[c] = "discover"
    /\ dpc = "done"
    /\ dpc' = "off"
    /\ logged' = LogTo(<<"Found", Len(extensions),
                         Len(SelectSeq(extensions, LAMBDA e : e.isLocal)),
                         Len(SelectSeq(extensions, LAMBDA e : ~e.isLocal))>>)
    /\ pc' = [pc EXCEPT ![c] = "sort"]
    /\ UNCHANGED <<fs, gT, gTitan, ns, loadedLibraries, verbose, order, idx, act,
                   modules, running, found, scan, extensions, sortVars, listed>>

\* lines 346-356: the result of discovery; nothing found ends the call
BootstrapDiscovered(c) ==
    /\ running = c
    /\ pc[c] = "discover"
    /\ dpc = "done"
    /\ dpc' = "off"
    /\ IF Len(extensions) = 0
       THEN /\ logged' = LogTo(<<"No TitanPL extensions found">>)
            /\ pc' = [pc EXCEPT ![c] = "done"]
            /\ running' = "none"
       ELSE /\ logged' = LogTo(<<"Found", Len(extensions),
                                 Len(SelectSeq(extensions, LAMBDA e : e.isLocal)),
                                 Len(SelectSeq(extensions, LAMBDA e : ~e.isLocal))>>)
            /\ pc' = [pc EXCEPT ![c] = "sort"]
            /\ UNCHANGED running
    /\ UNCHANGED <<fs, gT, gTitan, ns, loadedLibraries, verbose, order, idx, act,
                   modules, found, scan, extensions, sortVars, listed>>

-----------------------------------------------------------------------------
(* sortByDependencies, lines 178-226.                                      *)

\* line 179: new Map(extensions.map(e => [e.name, e])); a later entry of the
\* same name replaces an earlier one
ByNameHas(nm) == \E i \in 1..Len(extensions) : extensions[i].name = nm
ByNameGet(nm) ==
    extensions[CHOOSE i \in 1..Len(extensions) :
                  /\ extensions[i].name = nm
                  /\ \A j \in (i + 1)..Len(extensions) : extensions[j].name # nm]

\* AllDeps without the development dependencies
AllDeps_NoDev(pkg) == Dedup(pkg.dependencies \o pkg.peerDependencies)

\* lines 195-199: the keys of { ...dependencies, ...peerDependencies,
\* ...devDependencies }
AllDeps(pkg) ==
    Dedup(pkg.dependencies \o pkg.peerDependencies \o pkg.devDependencies)

\* lines 191-205: the dependency names visit iterates over; a missing or
\* unparsable package.json yields none
DepNames(ext) ==
    LET pkg == fs.pkg[ext.path]
    IN  IF pkg.st = "ok" THEN AllDeps(pkg) ELSE <<>>

\* Enters without the check of `visiting`
Enters_NoVisiting(ext) == ext.name \notin visited

\* lines 185-186: visit returns at once for a visited or visiting extension
Enters(ext) == ext.name \notin visited /\ ext.name \notin visiting

\* SortRoots with the non-local extensions taken in the reverse order
SortRoots_Reversed(exts) ==
    LET nl == SelectSeq(exts, LAMBDA e : ~e.isLocal)
    IN  [i \in 1..Len(nl) |-> nl[Len(nl) + 1 - i]] \o
        SelectSeq(exts, LAMBDA e : e.isLocal)

\* lines 214-223: the non-local extensions in discovery order, then the local
SortRoots(exts) ==
    SelectSeq(exts, LAMBDA e : ~e.isLocal) \o
    (IF \E i \in 1..Len(exts) : exts[i].isLocal
     THEN <<exts[CHOOSE i \in 1..Len(exts) :
                    exts[i].isLocal /\ \A j \in 1..(i - 1) : ~exts[j].isLocal]>>
     ELSE <<>>)

\* a call visit(ext) made with recursion stack st: lines 185-188
VisitCall(st, ext) ==
    /\ vstack' = IF Enters(ext)
                 THEN Append(st, [ext |-> ext, deps |-> DepNames(ext)])
                 ELSE st
    /\ visiting' = IF Enters(ext) THEN visiting \cup {ext.name} ELSE visiting

\* line 359 and lines 179-182: the call of sortByDependencies
SortStart(c) ==
    /\ running = c
    /\ pc[c] = "sort"
    /\ spc = "off"
    /\ sorted' = <<>>
    /\ visited' = {}
    /\ visiting' = {}
    /\ vstack' = <<>>
    /\ roots' = SortRoots(extensions)
    /\ spc' = "roots"
    /\ UNCHANGED <<fs, callVars, running, logged, discVars, listed>>

\* lines 217-223: visit the next root
VisitRoot ==
    /\ spc = "roots" /\ vstack = <<>> /\ roots # <<>>
    /\ VisitCall(<<>>, Head(roots))
    /\ roots' = Tail(roots)
    /\ UNCHANGED <<fs, callVars, running, logged, discVars, spc, sorted, visited, listed>>

\* lines 201-204: the next dependency name of the extension being visited
VisitDep ==
    /\ spc = "roots" /\ vstack # <<>> /\ Last(vstack).deps # <<>>
    /\ LET st == [vstack EXCEPT ![Len(vstack)].deps = Tail(@)]
           d == Head(Last(vstack).deps)
       IN  IF ByNameHas(d) THEN VisitCall(st, ByNameGet(d))
           ELSE vstack' = st /\ UNCHANGED visiting
    /\ UNCHANGED <<fs, callVars, running, logged, discVars, spc, sorted, visited,
                   roots, listed>>

\* lines 208-210: the extension is emitted after its dependencies
VisitExit ==
    /\ spc = "roots" /\ vstack # <<>> /\ Last(vstack).deps = <<>>
    /\ LET ext == Last(vstack).ext
       IN  /\ visiting' = visiting \ {ext.name}
           /\ visited' = visited \cup {ext.name}
           /\ sorted' = Append(sorted, ext)
    /\ vstack' = Front(vstack)
    /\ UNCHANGED <<fs, callVars, running, logged, discVars, spc, roots, listed>>

\* line 225 and line 359: the order is returned to bootstrap
SortReturn(c) ==
    /\ running = c
    /\ pc[c] = "sort"
    /\ spc = "roots" /\ vstack = <<>> /\ roots = <<>>
    /\ spc' = "off"
    /\ order' = [order EXCEPT ![c] = sorted]
    /\ idx' = [idx EXCEPT ![c] = 1]
    /\ pc' = [pc EXCEPT ![c] = "loop"]
    /\ UNCHANGED <<fs, gT, gTitan, ns, loadedLibraries, verbose, act, modules,
                   running, logged, discVars, sorted, visited, visiting, vstack,
                   roots, listed>>

Sort(c) ==
    \/ SortStart(c)
    \/ VisitRoot
    \/ VisitDep
    \/ VisitExit
    \/ SortReturn(c)

-----------------------------------------------------------------------------
(* The ordering family: flat trees whose packages all carry a valid        *)
(* manifest with a distinct name, the project root being an extension or   *)
(* not, and every package.json of at most MaxDeps dependency names.        *)

\* where a package.json of the family declares its names: all of them in one
\* section, or one name per section ("split": runtime, then peer, then
\* development)
Layouts == {"dependencies", "peerDependencies", "devDependencies", "split"}
PkgOf(layout, s) ==
    [st |-> "ok",
     dependencies |->
        IF layout = "dependencies" THEN s
        ELSE IF layout = "split" THEN Slice(s, 1, 1) ELSE <<>>,
     peerDependencies |->
        IF layout = "peerDependencies" THEN s
        ELSE IF layout = "split" THEN Slice(s, 2, 2) ELSE <<>>,
     devDependencies |->
        IF layout = "devDependencies" THEN s
        ELSE IF layout = "split" THEN Slice(s, 3, Len(s)) ELSE <<>>]
SortPkgFiles(layout) ==
    {NoPkg, BadPkg} \cup
    {PkgOf(layout, s) : s \in DistinctSeqs(Range(SortNames), MaxDeps)}

\* k extensions named SortNames[1..k]; the first is the project root when local
FlatFS(k, local, pkgs) ==
    LET n == IF local THEN k - 1 ELSE k
        off == IF local THEN 1 ELSE 0
    IN  MkFS(n, [i \in 1..n |-> Root],
             [i \in 1..n |-> Desc("pkg", PlainTitan(SortNames[i + off]), FALSE)],
             IF local THEN PlainTitan(SortNames[1]) ELSE NoTitan, FALSE,
             [d \in 0..n |-> IF d = Root /\ ~local THEN NoPkg ELSE pkgs[d + off]],
             NoFiles(n), NoModules(n))
SortFS ==
    \E k \in 1..Len(SortNames) :
      \E local \in BOOLEAN, layout \in Layouts :
        \E pkgs \in [1..k -> SortPkgFiles(layout)] :
          fs = FlatFS(k, local, pkgs)

\* what discoverExtensions returns for a tree of the ordering family
FlatDiscovered(f) ==
    (IF ValidManifest(f.titan[Root])
     THEN <<Ext(f.titan[Root].name, Root, f.titan[Root], TRUE)>> ELSE <<>>) \o
    [i \in 1..f.n |-> Ext(f.titan[i].name, i, f.titan[i], FALSE)]

\* what bootstrap has logged when it calls sortByDependencies there
FlatLogged(f) ==
    LET exts == FlatDiscovered(f)
    IN  [i \in 1..Len(exts) |->
            IF exts[i].isLocal THEN <<"Found local extension", exts[i].name>>
            ELSE <<"Found extension", exts[i].name>>] \o
        << <<"Found", Len(exts), Len(exts) - f.n, f.n>> >>

\* sortByDependencies alone, as bootstrap calls it (line 359), over the
\* ordering family
InitSort ==
    /\ SortFS
    /\ gT = "c1"
    /\ gTitan = "c1"
    /\ ns = [c \in Calls |-> IF c = "c1" THEN NewNamespace ELSE NoNamespace]
    /\ loadedLibraries = <<>>
    /\ pc = [c \in Calls |-> IF c = "c1" THEN "sort" ELSE "idle"]
    /\ verbose = [c \in Calls |-> FALSE]
    /\ logged = [c \in Calls |-> IF c = "c1" THEN FlatLogged(fs) ELSE <<>>]
    /\ order = [c \in Calls |-> <<>>]
    /\ idx = [c \in Calls |-> 0]
    /\ act = [c \in Calls |-> <<>>]
    /\ modules = [d \in Dirs(fs) |-> "unloaded"]
    /\ running = "c1"
    /\ dpc = "off"
    /\ found = FlatDiscovered(fs)
    /\ scan = <<>>
    /\ extensions = FlatDiscovered(fs)
    /\ spc = "off"
    /\ sorted = <<>>
    /\ visited = {}
    /\ visiting = {}
    /\ vstack = <<>>
    /\ roots = <<>>
    /\ listed = <<>>
NextSort == Sort("c1")
SpecSort == InitSort /\ [][NextSort]_vars


-----------------------------------------------------------------------------
(* Properties of sortByDependencies (checked under SpecSort).              *)

\* sortByDependencies has returned to call c1
SortReturned == pc["c1"] = "loop"

\* e comes before g in the returned order
Before(e, g) ==
    \E i, j \in 1..Len(order["c1"]) :
        i < j /\ order["c1"][i] = e /\ order["c1"][j] = g

\* package.json of A names B among its runtime, peer or development
\* dependencies
Declares(A, B) ==
    LET pkg == fs.pkg[A.path]
    IN  /\ pkg.st = "ok"
        /\ B.name \in Range(pkg.dependencies) \cup Range(pkg.peerDependencies)
                        \cup Range(pkg.devDependencies)

\* the discovered extensions reachable from those of S along declared edges
RECURSIVE ReachSet(_)
ReachSet(S) ==
    LET T == S \cup {B \in Range(extensions) : \E A \in S : Declares(A, B)}
    IN  IF T = S THEN S ELSE ReachSet(T)

\* the edge A -> B lies on a dependency cycle: B reaches A
OnCycle(A, B) == A \in ReachSet({B})

\* C1: the returned order places the local extension after every non-local
\* extension, whatever the declared dependencies
C1_LocalLast ==
    SortReturned =>
        \A i, j \in 1..Len(order["c1"]) :
            order["c1"][i].isLocal /\ ~order["c1"][j].isLocal => j < i

SumLen(st) == LET F[i \in 0..Len(st)] == IF i = 0 THEN 0 ELSE F[i - 1] + Len(st[i].deps) + 1
              IN  F[Len(st)]
SumFresh(exts) ==
    LET F[i \in 0..Len(exts)] ==
            IF i = 0 THEN 0
            ELSE F[i - 1] + (IF exts[i].name \in visited \cup visiting THEN 0
                             ELSE Len(DepNames(exts[i])) + 2)
    IN  F[Len(exts)]
SortMeasure ==
    IF pc["c1"] # "sort" THEN 0
    ELSE IF spc = "off" THEN 3 * (MaxDeps + 3) * (Len(extensions) + 1)
    ELSE 1 + Len(roots) + SumLen(vstack) + SumFresh(extensions)

\* the returned order holds every discovered extension exactly once
IsPermutation(s, t) ==
    /\ Len(s) = Len(t)
    /\ \A e \in Range(t) : Cardinality({i \in 1..Len(s) : s[i] = e}) = 1

SortSafe ==
    /\ ~SortReturned => ENABLED NextSort
    /\ Len(vstack) <= Len(extensions)
    /\ SortReturned => IsPermutation(order["c1"], extensions)

\* C3: for every dependency relation, cycles and self-dependencies included,
\* the sort ends after finitely many steps (each step decreases SortMeasure,
\* the recursion is no deeper than the number of extensions, and no state
\* short of the return is stuck), and the order returned holds every
\* discovered extension exactly once and nothing else
C3_SortTotal == [][SortMeasure' < SortMeasure]_vars /\ []SortSafe

\* C3 witness: a returned order for three extensions on one dependency cycle,
\* one of which also depends on itself
C3_Witness ==
    /\ SortReturned
    /\ Len(extensions) = 3
    /\ \A A, B \in Range(extensions) : A \in ReachSet({B})
    /\ \E A \in Range(extensions) : Declares(A, A)
    /\ IsPermutation(order["c1"], extensions)


-----------------------------------------------------------------------------
(* Properties of discoverExtensions (checked under SpecDiscover).          *)

\* discoverExtensions has returned
Discovered == dpc = "done"

\* the candidate directories of the dependency tree with a valid manifest
\* naming nm
Named(nm) ==
    {i \in Nodes(fs) : fs.kind[i] = "pkg" /\ ValidManifest(fs.titan[i])
                       /\ fs.titan[i].name = nm}

\* the returned entries named nm
Entries(nm) == {i \in 1..Len(extensions) : extensions[i].name = nm}

\* C4: a name declared by the root manifest and by directories of the
\* dependency tree yields exactly one entry, the local one at the root
C4_LocalPrecedence ==
    Discovered =>
        \A nm \in ExtNames :
            ValidManifest(fs.titan[Root]) /\ fs.titan[Root].name = nm
            /\ Named(nm) # {}
            => \E i \in 1..Len(extensions) :
                  /\ Entries(nm) = {i}
                  /\ extensions[i].isLocal
                  /\ extensions[i].path = Root

\* C4 witness: the root and two directories of the dependency tree, one of
\* them nested, declare the same name, and discovery has returned
C4_Witness ==
    /\ Discovered
    /\ \E nm \in ExtNames :
          /\ ValidManifest(fs.titan[Root]) /\ fs.titan[Root].name = nm
          /\ \E i, j \in Named(nm) : TopLevel(fs, i) /\ ~TopLevel(fs, j)
          /\ \E i \in Entries(nm) : extensions[i].isLocal

\* the directories from the root's dependency directory down to node i
RECURSIVE PathTo(_, _)
PathTo(f, i) == IF i = Root THEN <<>> ELSE Append(PathTo(f, f.parent[i]), i)

\* i is met before j by a pre-order walk that lists entries in node order
PreBefore(f, i, j) ==
    LET p == PathTo(f, i)
        q == PathTo(f, j)
    IN  \E k \in 1..Len(q) :
            /\ \A m \in 1..(k - 1) : m <= Len(p) /\ p[m] = q[m]
            /\ \/ k > Len(p)
               \/ k <= Len(p) /\ p[k] < q[k]

\* C5, top-level form: of a top-level and a nested directory declaring the same
\* name, the entry kept is the top-level one, whatever the listing order
C5_TopLevelKept ==
    Discovered =>
        \A nm \in ExtNames :
            ~(ValidManifest(fs.titan[Root]) /\ fs.titan[Root].name = nm)
            /\ (\E i, j \in Named(nm) : TopLevel(fs, i) /\ ~TopLevel(fs, j))
            => \E e \in 1..Len(extensions) :
                  extensions[e].name = nm /\ TopLevel(fs, extensions[e].path)

\* C5, first-found form: of the directories of the dependency tree declaring one
\* name (which the root does not declare), the entry kept is the one a
\* pre-order walk meets first
C5_FirstFoundKept ==
    Discovered =>
        \A nm \in ExtNames :
            ~(ValidManifest(fs.titan[Root]) /\ fs.titan[Root].name = nm)
            /\ Named(nm) # {}
            => \E e \in 1..Len(extensions) :
                  /\ Entries(nm) = {e}
                  /\ ~extensions[e].isLocal
                  /\ extensions[e].path \in Named(nm)
                  /\ \A j \in Named(nm) \ {extensions[e].path} :
                        PreBefore(fs, extensions[e].path, j)

\* C5 witness: a nested directory inside a package listed before the
\* top-level directory of the same name, and the nested one is kept
C5_Witness ==
    /\ Discovered
    /\ \E nm \in ExtNames :
          \E i, j \in Named(nm) :
              /\ TopLevel(fs, i) /\ ~TopLevel(fs, j)
              /\ TopAncestor(fs, j) < TopAncestor(fs, i)
              /\ \E e \in Entries(nm) : extensions[e].path = j


-----------------------------------------------------------------------------
(* loadExtension, lines 235-302, and the loop of bootstrap, lines 361-365. *)
(* A manifest's native.path is "" (not declared), "lib" (a string) or      *)
(* "bad" (a truthy value that is no string); its main likewise is "", or   *)
(* "bad"; a declared string main is the file fs.main describes.  A         *)
(* declared function is [name, wellformed]: parameters is an array or not. *)

CurExt(c) == order[c][idx[c]]

\* t[key][prop] = value
SetProp(n, key, prop, impl) ==
    [n EXCEPT !.props = {p \in @ : ~(p[1] = key /\ p[2] = prop)}
                            \cup {<<key, prop, impl>>}]

\* LoadBegin that does not create the namespace entry
LoadBegin_NoEntry(c) ==
    /\ running = c
    /\ pc[c] = "loop"
    /\ idx[c] <= Len(order[c])
    /\ logged' = LogTo(<<"Loading", CurExt(c).name>>)
    /\ pc' = [pc EXCEPT ![c] = "native"]
    /\ UNCHANGED <<fs, gT, gTitan, ns, loadedLibraries, verbose, order, idx, act,
                   modules, running, discVars, sortVars, listed>>

\* lines 361-362 and 240-246: the next extension of the load order; its
\* namespace entry is created unless the key already holds a value
LoadBegin(c) ==
    /\ running = c
    /\ pc[c] = "loop"
    /\ idx[c] <= Len(order[c])
    /\ logged' = LogTo(<<"Loading", CurExt(c).name>>)
    /\ ns' = [ns EXCEPT ![c] = IF Truthy(@, CurExt(c).name) THEN @
                               ELSE SetKey(@, CurExt(c).name, "made")]
    /\ pc' = [pc EXCEPT ![c] = "native"]
    /\ UNCHANGED <<fs, gT, gTitan, loadedLibraries, verbose, order, idx, act,
                   modules, running, discVars, sortVars, listed>>

\* line 365: the loop is over
BootstrapReady(c) ==
    /\ running = c
    /\ pc[c] = "loop"
    /\ idx[c] > Len(order[c])
    /\ logged' = LogTo(<<"Ready!">>)
    /\ pc' = [pc EXCEPT ![c] = "done"]
    /\ running' = "none"
    /\ UNCHANGED <<fs, gT, gTitan, ns, loadedLibraries, verbose, order, idx, act,
                   modules, discVars, sortVars, listed>>

\* lines 249-256 and 282-287: the library.  resolveDllPath (line 250, 304-307)
\* runs outside the try: path.isAbsolute throws for a path that is no string,
\* the promise of loadExtension rejects and with it the one of bootstrap
LoadNative(c) ==
    /\ running = c
    /\ pc[c] = "native"
    /\ LET native == CurExt(c).titanJson.native
           extPath == CurExt(c).path
       IN  IF native.path = ""
           THEN /\ pc' = [pc EXCEPT ![c] = "main"]
                /\ UNCHANGED <<loadedLibraries, act, logged, running>>
           ELSE IF native.path = "bad"
           THEN /\ pc' = [pc EXCEPT ![c] = "rejected"]
                /\ running' = "none"
                /\ UNCHANGED <<loadedLibraries, act, logged>>
           ELSE IF ~fs.dll[extPath]
           THEN /\ logged' = LogTo(<<"Warning: DLL not found", extPath>>)
                /\ pc' = [pc EXCEPT ![c] = "main"]
                /\ UNCHANGED <<loadedLibraries, act, running>>
           ELSE \E loads \in BOOLEAN :
                  IF loads
                  THEN /\ loadedLibraries' = Append(loadedLibraries, extPath)
                       /\ act' = [act EXCEPT ![c] = native.functions]
                       /\ pc' = [pc EXCEPT ![c] = "functions"]
                       /\ UNCHANGED <<logged, running>>
                  ELSE /\ logged' = LogTo(<<"Warning: Failed to load DLL", extPath>>)
                       /\ pc' = [pc EXCEPT ![c] = "main"]
                       /\ UNCHANGED <<loadedLibraries, act, running>>
    /\ UNCHANGED <<fs, gT, gTitan, ns, verbose, order, idx, modules, discVars,
                   sortVars, listed>>

\* BindFunction that assigns through the global t instead of the parameter t
BindFunction_Global(c) ==
    /\ running = c
    /\ pc[c] = "functions"
    /\ act[c] # <<>>
    /\ LET def == Head(act[c])
           name == CurExt(c).name
       IN  IF ~def.wellformed
           THEN /\ logged' = LogTo(<<"Warning: Failed to load DLL", CurExt(c).path>>)
                /\ act' = [act EXCEPT ![c] = <<>>]
                /\ pc' = [pc EXCEPT ![c] = "main"]
                /\ UNCHANGED ns
           ELSE /\ act' = [act EXCEPT ![c] = Tail(@)]
                /\ UNCHANGED pc
                /\ \E binds \in BOOLEAN :
                     IF binds
                     THEN /\ ns' = [ns EXCEPT ![gT] = SetProp(@, name, def.name, "native")]
                          /\ UNCHANGED logged
                     ELSE /\ logged' = LogTo(<<"Warning: Failed to load native function",
                                               def.name>>)
                          /\ UNCHANGED ns
    /\ UNCHANGED <<fs, gT, gTitan, loadedLibraries, verbose, order, idx, modules,
                   running, discVars, sortVars, listed>>

\* lines 259-268: one declared function.  def.parameters.map throws for a
\* malformed declaration, outside the inner try: the outer catch ends the
\* native part.  lib.func may throw: the inner catch warns and goes on
BindFunction(c) ==
    /\ running = c
    /\ pc[c] = "functions"
    /\ act[c] # <<>>
    /\ LET def == Head(act[c])
           name == CurExt(c).name
       IN  IF ~def.wellformed
           THEN /\ logged' = LogTo(<<"Warning: Failed to load DLL", CurExt(c).path>>)
                /\ act' = [act EXCEPT ![c] = <<>>]
                /\ pc' = [pc EXCEPT ![c] = "main"]
                /\ UNCHANGED ns
           ELSE /\ act' = [act EXCEPT ![c] = Tail(@)]
                /\ UNCHANGED pc
                /\ \E binds \in BOOLEAN :
                     IF binds
                     THEN /\ ns' = [ns EXCEPT ![c] = SetProp(@, name, def.name, "native")]
                          /\ UNCHANGED logged
                     ELSE /\ logged' = LogTo(<<"Warning: Failed to load native function",
                                               def.name>>)
                          /\ UNCHANGED ns
    /\ UNCHANGED <<fs, gT, gTitan, loadedLibraries, verbose, order, idx, modules,
                   running, discVars, sortVars, listed>>

\* t[name].serialize = v8.serialize, t[name].deserialize = v8.deserialize
RECURSIVE SetHooks(_, _, _)
SetHooks(n, key, hooks) ==
    IF hooks = {} THEN n
    ELSE LET h == CHOOSE x \in hooks : TRUE
         IN  SetHooks(SetProp(n, key, h, "v8"), key, hooks \ {h})

\* lines 272-281: the declared v8 functions, after the last declared function
BindHooks(c) ==
    /\ running = c
    /\ pc[c] = "functions"
    /\ act[c] = <<>>
    /\ ns' = [ns EXCEPT ![c] = SetHooks(@, CurExt(c).name,
                                       CurExt(c).titanJson.native.v8)]
    /\ logged' = LogTo(<<"Loaded native", CurExt(c).titanJson.native.path>>)
    /\ pc' = [pc EXCEPT ![c] = "main"]
    /\ UNCHANGED <<fs, gT, gTitan, loadedLibraries, verbose, order, idx, act,
                   modules, running, discVars, sortVars, listed>>


\* LoadMain that does not wait for the import
LoadMain_NoAwait(c) ==
    /\ running = c
    /\ pc[c] = "main"
    /\ pc' = [pc EXCEPT ![c] =
                 IF CurExt(c).titanJson.main = "bad" THEN "rejected" ELSE "await"]
    /\ running' = "none"
    /\ UNCHANGED <<fs, gT, gTitan, ns, loadedLibraries, verbose, logged, order,
                   idx, act, modules, discVars, sortVars, listed>>

\* lines 291-296: the entry module.  path.join (line 292) runs outside the
\* try and throws for a main that is no string.  Without the file the call
\* returns; with it import() starts and the section ends at the await
LoadMain(c) ==
    /\ running = c
    /\ pc[c] = "main"
    /\ pc' = [pc EXCEPT ![c] =
                 IF CurExt(c).titanJson.main = "bad" THEN "rejected"
                 ELSE IF fs.main[CurExt(c).path] = "none" THEN "await"
                 ELSE "import"]
    /\ running' = "none"
    /\ UNCHANGED <<fs, gT, gTitan, ns, loadedLibraries, verbose, logged, order,
                   idx, act, modules, discVars, sortVars, listed>>

\* what an entry module does when it is evaluated:
\*   "nop"    nothing
\*   "extend" globalThis.t[name].ready = ..., a TypeError without that entry
\*   "throws" it throws
\*   "await"  it suspends at a top-level await and completes later
ModuleKinds == {"nop", "extend", "throws", "await"}
\* and modules that assign the namespace entry of another extension:
\*   "provide" globalThis.t.app = { hello: ... }
\*   "falsy"   globalThis.t.app = 0
ProviderKinds == {"provide", "falsy"}
ProvidedKey == "app"

\* line 296: the evaluation of an imported module, once per path: import()
\* caches the module, a later import of the path waits for the same result
ModuleRun(d) ==
    /\ running = "none"
    /\ modules[d] = "unloaded"
    /\ \E c \in Calls : pc[c] = "import" /\ CurExt(c).path = d
    /\ LET kind == fs.main[d]
           name == fs.titan[d].name
       IN  IF kind = "extend" /\ gT \in Calls /\ Truthy(ns[gT], name)
           THEN /\ ns' = [ns EXCEPT ![gT] = SetProp(@, name, "ready", "js")]
                /\ modules' = [modules EXCEPT ![d] = "done"]
           ELSE IF kind \in ProviderKinds /\ gT \in Calls
           THEN /\ ns' = [ns EXCEPT ![gT] =
                             IF kind = "falsy" THEN SetKey(@, ProvidedKey, "falsy")
                             ELSE SetProp(SetKey(@, ProvidedKey, "bag"),
                                          ProvidedKey, "hello", "js")]
                /\ modules' = [modules EXCEPT ![d] = "done"]
           ELSE /\ modules' = [modules EXCEPT ![d] =
                                  IF kind \in {"extend", "throws"} THEN "threw"
                                  ELSE IF kind = "await" THEN "suspended"
                                  ELSE "done"]
                /\ UNCHANGED ns
    /\ UNCHANGED <<fs, gT, gTitan, loadedLibraries, pc, verbose, logged, order,
                   idx, act, running, discVars, sortVars, listed>>

\* the awaited work of a suspended module is over
ModuleResume(d) ==
    /\ running = "none"
    /\ modules[d] = "suspended"
    /\ modules' = [modules EXCEPT ![d] = "done"]
    /\ UNCHANGED <<fs, gT, gTitan, ns, loadedLibraries, pc, verbose, logged, order,
                   idx, act, running, discVars, sortVars, listed>>

\* lines 296-300: import() settled; loadExtension logs and returns
ImportSettled(c) ==
    /\ running = "none"
    /\ pc[c] = "import"
    /\ modules[CurExt(c).path] \in {"done", "threw"}
    /\ logged' = [logged EXCEPT ![c] = Append(@,
                     IF modules[CurExt(c).path] = "done"
                     THEN <<"Loaded JS", CurExt(c).path>>
                     ELSE <<"Warning: Failed to load JS", CurExt(c).path>>)]
    /\ pc' = [pc EXCEPT ![c] = "await"]
    /\ running' = "none"
    /\ UNCHANGED <<fs, gT, gTitan, ns, loadedLibraries, verbose, order, idx, act,
                   modules, discVars, sortVars, listed>>

\* line 362: await loadExtension(...) resumes bootstrap with the next one
LoadReturned(c) ==
    /\ running = "none"
    /\ pc[c] = "await"
    /\ idx' = [idx EXCEPT ![c] = @ + 1]
    /\ pc' = [pc EXCEPT ![c] = "loop"]
    /\ running' = c
    /\ UNCHANGED <<fs, gT, gTitan, ns, loadedLibraries, verbose, logged, order,
                   act, modules, discVars, sortVars, listed>>

\* one call of bootstrap(options)
Bootstrap(c) ==
    \/ Invoke(c)
    \/ BootstrapDiscovered(c)
    \/ Sort(c)
    \/ LoadBegin(c)
    \/ LoadNative(c)
    \/ BindFunction(c)
    \/ BindHooks(c)
    \/ LoadMain(c)
    \/ ImportSettled(c)
    \/ LoadReturned(c)
    \/ BootstrapReady(c)

Import ==
    \/ \E d \in Dirs(fs) : ModuleRun(d)
    \/ \E d \in Dirs(fs) : ModuleResume(d)


\* lines 378-380: hasExtension(name)
HasExtension(nm) == gT \in Calls /\ nm \in ns[gT].def

-----------------------------------------------------------------------------
(* Families of projects for activation: the dependency "core", installed   *)
(* under a scope next to a hidden entry, and the local extension "app"     *)
(* that depends on it.                                                     *)

Fn(nm, wf) == [name |-> nm, wellformed |-> wf]
\* native.path is no string
BadPathNative == [path |-> "bad", functions |-> <<>>, v8 |-> {}]
FullNative ==
    [path |-> "lib", functions |-> <<Fn("add", TRUE), Fn("mul", TRUE)>>,
     v8 |-> {"serialize", "deserialize"}]
\* the second declared function has no parameters array
BrokenNative ==
    [path |-> "lib", functions |-> <<Fn("add", TRUE), Fn("mul", FALSE)>>,
     v8 |-> {"serialize"}]

\* an extension directory: the manifest's native and main, whether the
\* library file exists, and the entry module file
Config(native, dll, main, file) ==
    [native |-> native, dll |-> dll, main |-> main, file |-> file]
Configs ==
    {Config(native, dll, main, file) :
        native \in {NoNative, BadPathNative, FullNative, BrokenNative},
        dll \in BOOLEAN, main \in {"", "bad"}, file \in {"none"} \cup ModuleKinds}
\* one configuration for each behaviour: the library file of a manifest
\* without library path, and the file of a main that is no path, do not matter
Canonical(cf) ==
    /\ cf.dll => cf.native.path = "lib"
    /\ cf.main = "bad" => cf.file = "none"
PlainConfig == Config(NoNative, FALSE, "", "extend")

TitanOf(nm, cf) == [st |-> "ok", name |-> nm, main |-> cf.main, native |-> cf.native]
DependsOn(deps) ==
    [st |-> "ok", dependencies |-> deps, peerDependencies |-> <<>>,
     devDependencies |-> <<>>]

\* the project without manifest and without dependency directory
EmptyFS ==
    MkFS(0, <<>>, <<>>, NoTitan, FALSE, [d \in {Root} |-> NoPkg],
         NoFiles(0), NoModules(0))

\* the local extension alone
LocalFS(cf) ==
    MkFS(0, <<>>, <<>>, TitanOf("app", cf), FALSE, [d \in {Root} |-> NoPkg],
         [d \in {Root} |-> cf.dll], [d \in {Root} |-> cf.file])

\* node_modules/.bin, a dependency named nm in a directory of the scope
\* node_modules/@titanpl, and the local extension that depends on it
DepAppFS(nm, core, app) ==
    LET CoreDir == 3 IN
    MkFS(CoreDir, <<Root, Root, 2>>,
         <<Desc("hidden", NoTitan, FALSE), Desc("scope", NoTitan, FALSE),
           Desc("pkg", TitanOf(nm, core), FALSE)>>,
         TitanOf("app", app), FALSE,
         [d \in 0..CoreDir |-> IF d = Root THEN DependsOn(<<nm>>) ELSE NoPkg],
         [d \in 0..CoreDir |-> IF d = Root THEN app.dll ELSE d = CoreDir /\ core.dll],
         [d \in 0..CoreDir |-> IF d = Root THEN app.file
                               ELSE IF d = CoreDir THEN core.file ELSE "none"])

\* node_modules/.bin, node_modules/@titanpl/core, and the local extension
CoreAppFS(core, app) == DepAppFS("core", core, app)

\* one call over every configuration of the two extensions
ActivateFS ==
    \/ fs = EmptyFS
    \/ \E app \in Configs :
         /\ Canonical(app)
         /\ \/ fs = LocalFS(app)
            \/ \E core \in Configs : Canonical(core) /\ fs = CoreAppFS(core, app)

InitActivate == InitWith(ActivateFS)
NextActivate == Bootstrap("c1") \/ Discover \/ Import
SpecActivate == InitActivate /\ [][NextActivate]_vars

\* calls that overlap, getLoadedExtensions between their sections, over a project
\* whose dependency has a library and an entry module
BootConfigs ==
    {Config(FullNative, dll, "", file) : dll \in BOOLEAN, file \in {"extend", "await"}}
BootFS ==
    \/ fs = EmptyFS
    \/ \E cf \in BootConfigs : fs = CoreAppFS(cf, PlainConfig)

Init == InitWith(BootFS)
Next ==
    \/ \E c \in Calls : Bootstrap(c)
    \/ Discover
    \/ Import
    \/ GetLoadedExtensions
    \/ GetLoadedReturn
Spec == Init /\ [][Next]_vars


\* discovery over the family of unreadable directories
InitUnreadable == InitWith(UnreadableFS)
SpecUnreadable == InitUnreadable /\ [][NextDiscover]_vars

\* one call over projects in which a namespace entry holds a value before
\* the extension of that name is activated: the dependency is named after a
\* fixed entry, or its entry module assigns the entry of the local extension
NamespaceFS ==
    \E nm \in {"core", "log", "native"}, kind \in {"nop"} \cup ProviderKinds,
       native \in {NoNative, FullNative}, file \in {"extend", "await"} :
        fs = DepAppFS(nm, Config(NoNative, FALSE, "", kind),
                      Config(native, native.path = "lib", "", file))
InitNamespace == InitWith(NamespaceFS)
SpecNamespace == InitNamespace /\ [][NextActivate]_vars

\* two calls that may overlap, over projects whose local extension, the one
\* activated last, has a library: a dependency with or without a library,
\* whose entry module extends its entry or waits
OverlapFS ==
    \E native \in {NoNative, FullNative}, file \in {"extend", "await"} :
        fs = CoreAppFS(Config(native, native.path = "lib", "", file),
                       Config(FullNative, TRUE, "", "extend"))
InitOverlap == InitWith(OverlapFS)
NextOverlap ==
    \/ \E c \in Calls : Bootstrap(c)
    \/ Discover
    \/ Import
SpecOverlap == InitOverlap /\ [][NextOverlap]_vars

\* two calls, the second one made after the first has ended
Ended(c) == pc[c] \in {"done", "rejected"}
NextSequential ==
    \/ Bootstrap("c1")
    \/ Ended("c1") /\ Bootstrap("c2")
    \/ Discover
    \/ Import
SpecSequential == Init /\ [][NextSequential]_vars

-----------------------------------------------------------------------------
(* Properties of activation (checked under SpecActivate and Spec).         *)

\* the extensions whose activation call c started, in order: line 243 logs
\* each one first
Attempted(c) ==
    LET loading == SelectSeq(logged[c], LAMBDA m : m[1] = "Loading")
    IN  [i \in 1..Len(loading) |-> loading[i][2]]

LoadOrder(c) == [i \in 1..Len(order[c]) |-> order[c][i].name]

\* C6: whatever fails inside the activation of one extension, bootstrap
\* does not reject, and it completes having attempted every extension of
\* the load order, in order
C6_NeverAborts ==
    /\ pc["c1"] # "rejected"
    /\ pc["c1"] = "done" => Attempted("c1") = LoadOrder("c1")

\* the manifest names a library and the resolved file does not exist
MissingLibrary(e) == e.titanJson.native.path = "lib" /\ ~fs.dll[e.path]

\* C7: once bootstrap has ended, an extension with a missing library whose
\* activation started has logged the warning, has no native function and
\* no serialization hook, has its namespace entry, has had its entry module
\* evaluated when the file exists, and bootstrap has completed
C7_MissingLibraryDegrades ==
    \A k \in 1..Len(order["c1"]) :
        LET e == order["c1"][k] IN
        /\ pc["c1"] \in {"done", "rejected"}
        /\ k <= idx["c1"]
        /\ MissingLibrary(e)
        => /\ \E i \in 1..Len(logged["c1"]) :
                  logged["c1"][i] = <<"Warning: DLL not found", e.path>>
           /\ \A p \in ns["c1"].props : p[1] = e.name => p[3] = "js"
           /\ e.path \notin Range(loadedLibraries)
           /\ e.name \in ns["c1"].def
           /\ (fs.main[e.path] # "none" => modules[e.path] \in {"done", "threw"})
           /\ pc["c1"] = "done"

\* the manifest's main is a path and the file exists
HasModule(e) == e.titanJson.main # "bad" /\ fs.main[e.path] # "none"

\* C8: while a call activates the extensions of its load order, the entry
\* module of every extension before the current one has completed or
\* failed, and no step of an extension after the current one has happened:
\* it is not logged as loading and has no namespace entry
C8_NoOverlap ==
    \A c \in Calls :
        pc[c] \in {"loop", "native", "functions", "main", "import", "await", "done"}
        => \A k \in 1..Len(order[c]) :
              LET e == order[c][k] IN
              /\ k < idx[c] \/ (k = idx[c] /\ pc[c] = "await")
                 => (HasModule(e) => modules[e.path] \in {"done", "threw"})
              /\ k > idx[c] \/ (k = idx[c] /\ pc[c] = "loop")
                 => /\ e.name \notin ns[c].def
                    /\ e.name \notin Range(Attempted(c))

\* C8 witness: the first extension's entry module suspended on asynchronous
\* work and completed, and the activation of the second has begun
C8_Witness ==
    /\ Len(order["c1"]) = 2
    /\ idx["c1"] = 2
    /\ pc["c1"] = "native"
    /\ fs.main[order["c1"][1].path] = "await"
    /\ modules[order["c1"][1].path] = "done"


\* C9: once bootstrap has been invoked, the global t is defined, the global
\* Titan is the same object, and the object has the function log and the
\* bag native
C9_GlobalsBound ==
    (\E c \in Calls : pc[c] # "idle")
    => /\ gT \in Calls
       /\ gTitan = gT
       /\ pc[gT] # "idle"
       /\ "log" \in ns[gT].fn
       /\ "native" \in ns[gT].def \ ns[gT].fn

\* C9 witness: a second call was invoked while the first waits for an entry
\* module, before the second call's discovery has started
C9_Witness ==
    /\ pc["c1"] = "import"
    /\ pc["c2"] = "discover"
    /\ dpc = "local"
    /\ gT = "c2"

\* the root has no manifest and no dependency directory
EmptyRoot == fs.titan[Root].st = "absent" /\ fs.ls[Root] = "absent"

\* C10: for such a root discoverExtensions returns the empty sequence, and
\* every bootstrap call goes from discovery to its end: no sort, no
\* activation step, a namespace with log and native only
C10_EmptyProject ==
    EmptyRoot =>
        /\ Discovered => extensions = <<>>
        /\ spc = "off"
        /\ loadedLibraries = <<>>
        /\ \A d \in Dirs(fs) : modules[d] = "unloaded"
        /\ \A c \in Calls :
              /\ pc[c] \in {"idle", "discover", "done"}
              /\ order[c] = <<>>
              /\ Attempted(c) = <<>>
              /\ pc[c] # "idle" => ns[c] = NewNamespace
              /\ pc[c] = "discover" => ENABLED (Discover \/ BootstrapDiscovered(c))
              /\ pc[c] = "done" => logged[c] = <<<<"No TitanPL extensions found">>>>

\* C10 witness: bootstrap has completed for the root without manifest and
\* dependency directory
C10_Witness == EmptyRoot /\ pc["c1"] = "done" /\ ns["c1"] = NewNamespace


-----------------------------------------------------------------------------
(* Further properties of discoverExtensions (checked under SpecDiscover).  *)

\* the directories whose manifest discovery examines: the root and every
\* candidate directory of the dependency tree
Examined(d) == d = Root \/ fs.kind[d] = "pkg"

\* the manifest file is present and is malformed: it does not parse, or it
\* has no name
Malformed(tj) == tj.st = "invalid" \/ (tj.st = "ok" /\ tj.name = "")

\* the log closure of call c was called with a warning about d's manifest
WarnedManifest(c, d) ==
    \E i \in 1..Len(logged[c]) :
        LET m == logged[c][i] IN
        IF d = Root
        THEN Len(m) = 1 /\ m[1] = "Warning: Invalid titan.json in project root"
        ELSE Len(m) = 2 /\ m[1] = "Warning: Invalid titan.json in" /\ m[2] = d

\* C11: when the discovery of a bootstrap call has returned, every examined
\* directory with a malformed manifest has no registered extension and has
\* a warning in the log channel
C11_MalformedWarned ==
    Discovered /\ running = "c1" =>
        \A d \in Dirs(fs) :
            Examined(d) /\ Malformed(fs.titan[d])
            => /\ \A i \in 1..Len(extensions) : extensions[i].path # d
               /\ WarnedManifest("c1", d)


-----------------------------------------------------------------------------
(* Properties of the queries hasExtension and getLoadedExtensions.         *)

\* names hasExtension is asked about: the extensions of the activation
\* families, the fixed entries of the namespace, and a name nothing declares
QueryNames == {"core", "app", "log", "native", "other"}

\* the activation of an extension named nm was started by the most recent
\* bootstrap call, the one that bound the globals last
ActivatedByLatest(nm) == gT \in Calls /\ nm \in Range(Attempted(gT))

\* C12: hasExtension(name) is true exactly for the names of the extensions
\* whose activation the most recent bootstrap call has started, and false
\* for every name before any bootstrap call
C12_HasExtensionExact ==
    \A nm \in QueryNames : HasExtension(nm) <=> ActivatedByLatest(nm)


\* the call has its load order: sortByDependencies has returned
Ordered(c) == pc[c] \in {"loop", "native", "functions", "main", "import", "await",
                         "done", "rejected"} /\ order[c] # <<>>

\* C13: a getLoadedExtensions call changes neither the globals, nor any
\* namespace, nor the library handles, evaluates no module and logs nothing;
\* what it returns is what the discovery of a bootstrap call returns for
\* the tree
C13_QueryFrame ==
    /\ [][running = "gle" \/ running' = "gle"
            => UNCHANGED <<fs, gT, gTitan, ns, loadedLibraries, modules, logged,
                           pc, verbose, order, idx, act, sortVars>>]_vars
    /\ [](listed # <<>> =>
            /\ Discovered /\ running \in Calls => extensions = listed[1]
            /\ \A c \in Calls : Ordered(c) => Range(order[c]) = Range(listed[1]))

\* C13 witness: getLoadedExtensions has returned two extensions while a
\* bootstrap call that bound a native function waits for an entry module
C13_Witness ==
    /\ listed # <<>>
    /\ Len(listed[1]) = 2
    /\ pc["c1"] = "import"
    /\ running = "none"
    /\ \E p \in ns["c1"].props : p[3] = "native"


-----------------------------------------------------------------------------
(* Properties of the namespace across and within activations.              *)

\* call c logged the message m
Logged(c, m) == \E i \in 1..Len(logged[c]) : logged[c][i] = m

\* the property p of call c's namespace is one that c's own activation of
\* the extension e wrote: a declared function or hook of a library that c
\* found and loaded, whose binding c did not report as failed
WrittenBy(c, e, p) ==
    LET native == e.titanJson.native IN
    /\ p[1] = e.name
    /\ p[3] \in {"native", "v8"}
    /\ native.path = "lib"
    /\ ~Logged(c, <<"Warning: DLL not found", e.path>>)
    /\ (\A i \in 1..Len(native.functions) : native.functions[i].wellformed)
          => ~Logged(c, <<"Warning: Failed to load DLL", e.path>>)
    /\ p[3] = "native" =>
          /\ \E i \in 1..Len(native.functions) : native.functions[i].name = p[2]
          /\ ~Logged(c, <<"Warning: Failed to load native function", p[2]>>)
    /\ p[3] = "v8" => p[2] \in native.v8 /\ Logged(c, <<"Loaded native", native.path>>)

\* C14: once the second call is made, after the first has ended, both
\* globals are its namespace; the namespace has log, native and an entry for
\* each extension the second call has begun to activate, and the only
\* properties on them are those the second call bound itself
C14_FreshNamespace ==
    pc["c2"] # "idle" =>
        /\ gT = "c2"
        /\ gTitan = "c2"
        /\ ns["c2"].def = {"log", "native"} \cup Range(Attempted("c2"))
        /\ ns["c2"].fn = {"log"}
        /\ \A p \in ns["c2"].props :
              \E k \in 1..Len(order["c2"]) :
                  k <= idx["c2"] /\ WrittenBy("c2", order["c2"][k], p)

\* C14 witness: the first call bound native functions and its entry module
\* extended the namespace; the second call has completed with the entry of
\* the same extension and nothing bound on it
C14_Witness ==
    /\ pc["c1"] = "done"
    /\ pc["c2"] = "done"
    /\ \E p \in ns["c1"].props : p[1] = "core" /\ p[3] = "native"
    /\ \E p \in ns["c1"].props : p[1] = "core" /\ p[3] = "js"
    /\ "core" \in ns["c2"].def
    /\ ns["c2"].props = {}


\* call c's activation of the k-th extension of its load order is over
Activated(c, k) ==
    /\ pc[c] \in {"loop", "native", "functions", "main", "import", "await", "done"}
    /\ k < idx[c] \/ (k = idx[c] /\ pc[c] = "await")

\* the messages call c logged during the activation of the k-th extension
\* of its load order: from its "Loading" message up to the next one
ActivationLog(c, k) ==
    LET at == {i \in 1..Len(logged[c]) : logged[c][i][1] = "Loading"}
        from == CHOOSE i \in at : Cardinality({j \in at : j <= i}) = k
        later == {i \in at : i > from}
        to == IF later = {} THEN Len(logged[c])
              ELSE (CHOOSE i \in later : \A j \in later : i <= j) - 1
    IN  SubSeq(logged[c], from, to)

\* the binding of the k-th extension's declared function f failed in call
\* c: its declaration could not be used, or lib.func threw and the warning
\* names it
BindingFailed(c, k, f) ==
    \/ ~f.wellformed
    \/ <<"Warning: Failed to load native function", f.name>>
          \in Range(ActivationLog(c, k))

\* C15: after the activation of an extension whose library was loaded and
\* for which the binding of a declared function failed, a warning is
\* logged, exactly the functions whose binding failed are missing, the
\* declared hooks are bound, and the entry module has been evaluated
C15_OneBindingFails ==
    \A k \in 1..Len(order["c1"]) :
        LET e == order["c1"][k]
            fns == Range(e.titanJson.native.functions)
        IN  /\ Activated("c1", k)
            /\ e.path \in Range(loadedLibraries)
            /\ \E f \in fns : BindingFailed("c1", k, f)
            => /\ \E m \in Range(ActivationLog("c1", k)) :
                    m[1] \in {"Warning: Failed to load native function",
                              "Warning: Failed to load DLL"}
               /\ \A f \in fns :
                     <<e.name, f.name, "native">> \in ns["c1"].props
                        <=> ~BindingFailed("c1", k, f)
               /\ \A h \in e.titanJson.native.v8 :
                     <<e.name, h, "v8">> \in ns["c1"].props
               /\ (HasModule(e) => modules[e.path] \in {"done", "threw"})


-----------------------------------------------------------------------------
(* The registered set during a discovery run (checked under SpecDiscover). *)

\* C16: the Map found never holds two entries of one name nor two local
\* entries, and within a run an entry once registered keeps its place and
\* its value: a step that does not start a new run only appends
C16_RegisteredSet ==
    /\ [](/\ \A i, j \in 1..Len(found) : found[i].name = found[j].name => i = j
          /\ \A i, j \in 1..Len(found) : found[i].isLocal /\ found[j].isLocal => i = j
          /\ \A i \in 1..Len(found) : found[i].isLocal => found[i].path = Root)
    /\ [][dpc' # "local" =>
            /\ Len(found') >= Len(found)
            /\ \A i \in 1..Len(found) : found'[i] = found[i]]_vars

\* C16 witness: the root declares one name, two directories of the
\* dependency tree declare another, and the run has returned the local
\* entry and the first of the two
C16_Witness ==
    /\ Discovered
    /\ Len(extensions) = 2
    /\ extensions[1].isLocal
    /\ Cardinality(Named(extensions[2].name)) = 2
    /\ fs.titan[Root].name # extensions[2].name


-----------------------------------------------------------------------------
(* Unreadable directories (checked under SpecUnreadable).                  *)

\* reading fails at directory d: its listing throws, or it is an entry
\* whose statSync throws
Fails(f, d) == f.ls[d] = "throws" \/ (d # Root /\ f.kind[d] = "staterr")

\* the node lies below a directory at which reading fails
RECURSIVE Below(_, _)
Below(f, i) ==
    /\ i # Root
    /\ Fails(f, f.parent[i]) \/ Below(f, f.parent[i])

\* the tree with every failing subtree emptied: nothing is listed below a
\* failure, and an entry that could not be inspected is an empty directory
Emptied(f) ==
    [f EXCEPT
        !.kind = [i \in Nodes(f) |->
                     IF Below(f, i) THEN "file"
                     ELSE IF f.kind[i] = "staterr" THEN "pkg" ELSE f.kind[i]],
        !.titan = [d \in Dirs(f) |->
                     IF Below(f, d) \/ (d # Root /\ f.kind[d] = "staterr")
                     THEN NoTitan ELSE f.titan[d]],
        !.ls = [d \in Dirs(f) |->
                     IF Below(f, d) \/ Fails(f, d) THEN "absent" ELSE f.ls[d]]]

\* what a depth-first walk of a tree without failures registers, given the
\* entries still to examine and the Map so far
RECURSIVE Walk(_, _, _)
Walk(f, entries, m) ==
    IF entries = <<>> THEN m
    ELSE LET i == Head(entries)
             here == IF f.kind[i] = "pkg" /\ f.titan[i].st = "ok"
                     THEN Register(m, f.titan[i], i) ELSE m
             below == IF f.kind[i] \in {"pkg", "scope"}
                      THEN Walk(f, Children(f, i), here) ELSE here
         IN  Walk(f, Tail(entries), below)

WalkAll(f) ==
    Walk(f, Children(f, Root),
         IF ValidManifest(f.titan[Root])
         THEN <<Ext(f.titan[Root].name, Root, f.titan[Root], TRUE)>> ELSE <<>>)

\* C17: discovery returns, and what it returns is what a walk registers in
\* the tree whose failing subtrees are emptied: a failure contributes no
\* extension and changes nothing for the other directories
C17_FailuresAreEmpty ==
    /\ dpc \in {"local", "nm", "scan"} => ENABLED Discover
    /\ Discovered => extensions = WalkAll(Emptied(fs))

\* C17 witness: discovery has returned an extension of the dependency tree
\* although a manifest lies below a directory whose listing throws and the
\* statSync of another entry throws
C17_Witness ==
    /\ Discovered
    /\ \E i \in 1..Len(extensions) : ~extensions[i].isLocal
    /\ \E i, j \in Nodes(fs) :
          /\ fs.ls[fs.parent[i]] = "throws" /\ ValidManifest(fs.titan[i])
          /\ fs.kind[j] = "staterr"


-----------------------------------------------------------------------------
(* The order of the steps of one activation (checked under SpecActivate).  *)

\* the native functions and serialization hooks bound in a namespace
Bindings(n) == {p \in n.props : p[3] \in {"native", "v8"}}

\* C18: a step that binds native functions or hooks binds them for the
\* extension being activated, whose namespace entry already exists and
\* whose entry module has not started; and the step that starts an entry
\* module finds the global namespace to be the one the bindings of its
\* extension went into, with all declared functions handled
C18_StepOrder ==
    [][/\ Bindings(ns'["c1"]) # Bindings(ns["c1"]) =>
             /\ pc["c1"] = "functions"
             /\ CurExt("c1").name \in ns["c1"].def
             /\ modules[CurExt("c1").path] = "unloaded"
             /\ \A p \in Bindings(ns'["c1"]) \ Bindings(ns["c1"]) :
                   p[1] = CurExt("c1").name
       /\ \A d \in Dirs(fs) :
             modules[d] = "unloaded" /\ modules'[d] # "unloaded" =>
                /\ pc["c1"] = "import"
                /\ CurExt("c1").path = d
                /\ act["c1"] = <<>>
                /\ gT = "c1"
                /\ CurExt("c1").name \in ns[gT].def
                /\ Bindings(ns'[gT]) = Bindings(ns[gT])]_vars

\* C18 witness: an extension has its two native functions and its hooks
\* bound, and its entry module, started after them, has extended its entry
C18_Witness ==
    /\ \E p \in ns["c1"].props : p = <<"core", "add", "native">>
    /\ \E p \in ns["c1"].props : p = <<"core", "mul", "native">>
    /\ \E p \in ns["c1"].props : p = <<"core", "serialize", "v8">>
    /\ \E p \in ns["c1"].props : p = <<"core", "ready", "js">>


(***************************************************************************)
(* The namespace-entry step, line 246                                      *)
(***************************************************************************)

\* the value the namespace n holds at key
EntryValue(n, key) ==
    [present |-> key \in n.def, fn |-> key \in n.fn, falsy |-> key \in n.falsy,
     made |-> key \in n.made, props |-> {p \in n.props : p[1] = key}]

\* an entry that is a bag with no property
EmptyBag ==
    [present |-> TRUE, fn |-> FALSE, falsy |-> FALSE, made |-> TRUE,
     props |-> {}]

\* C19: the step that begins the activation of an extension keeps the value
\* its namespace entry holds when the entry holds one, makes the entry a new
\* empty bag only when the entry is absent, and leaves every other entry as
\* it is
C19_EntryKept ==
    [][pc["c1"] = "loop" /\ pc'["c1"] = "native" =>
          LET nm == CurExt("c1").name IN
          /\ nm \in ns["c1"].def =>
                EntryValue(ns'["c1"], nm) = EntryValue(ns["c1"], nm)
          /\ nm \notin ns["c1"].def => EntryValue(ns'["c1"], nm) = EmptyBag
          /\ \A k \in (ns["c1"].def \cup ns'["c1"].def) \ {nm} :
                EntryValue(ns'["c1"], k) = EntryValue(ns["c1"], k)]_vars


-----------------------------------------------------------------------------
(* The order as a function of what sortByDependencies is given.            *)

\* what a run of sortByDependencies is given: the discovered sequence (names
\* and isLocal flags, in discovery order) and, for each extension, the
\* ordered list of the names its package.json declares
SortInput ==
    [exts |-> [i \in 1..Len(extensions) |->
                  [name |-> extensions[i].name,
                   isLocal |-> extensions[i].isLocal]],
     deps |-> [i \in 1..Len(extensions) |-> DepNames(extensions[i])]]

\* lines 184-211 as a function of the input alone: the order and the set of
\* visited names after visit(nm) and after the loop over the names ds, from
\* the order and set st, with the names of `on` being visited
RECURSIVE RefVisit(_, _, _, _)
RECURSIVE RefDeps(_, _, _, _)
RefVisit(inp, nm, on, st) ==
    IF nm \in st.visited \/ nm \in on THEN st
    ELSE LET i == CHOOSE j \in 1..Len(inp.exts) :
                     /\ inp.exts[j].name = nm
                     /\ \A k \in (j + 1)..Len(inp.exts) : inp.exts[k].name # nm
             after == RefDeps(inp, inp.deps[i], on \cup {nm}, st)
         IN  [sorted |-> Append(after.sorted, nm),
              visited |-> after.visited \cup {nm}]
RefDeps(inp, ds, on, st) ==
    IF ds = <<>> THEN st
    ELSE RefDeps(inp, Tail(ds), on,
                 IF \E j \in 1..Len(inp.exts) : inp.exts[j].name = Head(ds)
                 THEN RefVisit(inp, Head(ds), on, st)
                 ELSE st)

\* lines 214-225 as a function of the input alone: the names in the order
\* returned
RECURSIVE RefRoots(_, _, _)
RefRoots(inp, rs, st) ==
    IF rs = <<>> THEN st.sorted
    ELSE RefRoots(inp, Tail(rs), RefVisit(inp, Head(rs).name, {}, st))
RefSort(inp) ==
    LET nonLocal == SelectSeq(inp.exts, LAMBDA e : ~e.isLocal)
        locals == SelectSeq(inp.exts, LAMBDA e : e.isLocal)
    IN  RefRoots(inp, nonLocal \o Slice(locals, 1, 1),
                 [sorted |-> <<>>, visited |-> {}])

\* no package.json of a discovered extension declares the name of a
\* discovered extension
NoDeclaredEdge ==
    \A i \in 1..Len(extensions) :
        \A nm \in Range(DepNames(extensions[i])) : ~ByNameHas(nm)

\* C20: the order sortByDependencies returns is the value of one function of
\* the discovered sequence (names and isLocal flags in discovery order) and
\* of the ordered lists of declared names, so that two runs given the same
\* sequence and lists return the same order; and when no declared name is
\* that of a discovered extension the order is the non-local extensions in
\* discovery order followed by the local extension
C20_SortDeterministic ==
    SortReturned =>
      /\ Len(order["c1"]) = Len(RefSort(SortInput))
      /\ \A i \in 1..Len(order["c1"]) :
            /\ order["c1"][i].name = RefSort(SortInput)[i]
            /\ order["c1"][i] \in Range(extensions)
      /\ NoDeclaredEdge =>
            order["c1"] = SelectSeq(extensions, LAMBDA e : ~e.isLocal) \o
                          SelectSeq(extensions, LAMBDA e : e.isLocal)

\* C20 witness: an order has been returned for a local extension and two
\* non-local ones whose declared names, spread over the sections of the
\* package.json files, make it differ from the discovery order
C20_Witness ==
    /\ SortReturned
    /\ Len(extensions) = 3
    /\ extensions[1].isLocal
    /\ ~NoDeclaredEdge
    /\ \E i \in 1..3 : fs.pkg[extensions[i].path].st = "ok"
                       /\ fs.pkg[extensions[i].path].peerDependencies # <<>>
                       /\ fs.pkg[extensions[i].path].dependencies # <<>>
    /\ order["c1"][1].name = extensions[3].name
    /\ order["c1"][2].name = extensions[2].name
    /\ order["c1"][3].name = extensions[1].name


-----------------------------------------------------------------------------
(* Overlapping bootstrap calls (checked under SpecOverlap).                *)

\* the other call
Other(c) == CHOOSE o \in Calls : o # c

\* what loadExtension writes into a namespace: the entries line 246 creates
\* and the bound native functions and hooks
Written(n) == [made |-> n.made, bindings |-> Bindings(n)]

\* C21: a step of a bootstrap call changes no namespace but the one the call
\* constructed, and the entries and bindings of a namespace are written by
\* steps of its own call only; the globals are rebound by the invocation of a
\* call and by nothing else, to that call's namespace; and while the call
\* invoked last has not begun to activate an extension that the other call
\* has begun to activate, the global namespace has no entry for it and no
\* binding on it, the other call's namespace holding them
C21_OverlapIsolated ==
    /\ [][\A c \in Calls :
            /\ running = c => ns'[Other(c)] = ns[Other(c)]
            /\ Written(ns'[c]) # Written(ns[c]) => running = c
            /\ pc[c] = "idle" /\ pc'[c] # "idle" => gT' = c /\ gTitan' = c
            /\ (gT' = c /\ gT # c) \/ (gTitan' = c /\ gTitan # c) =>
                  pc[c] = "idle" /\ pc'[c] # "idle"]_vars
    /\ [](\A c \in Calls :
            gT = c /\ pc[Other(c)] # "idle" =>
              /\ gTitan = c
              /\ \A p \in Bindings(ns[c]) : p[1] \in Range(Attempted(c))
              /\ \A nm \in Range(Attempted(Other(c))) :
                    /\ nm \in ns[Other(c)].made
                    /\ HasExtension(nm) <=> nm \in Range(Attempted(c)))

\* C21 witness: the second call was invoked while the first waited for the
\* entry module of the dependency and waits for it in turn; the first call,
\* resumed, has bound the native functions of the local extension, which the
\* second call has not begun to activate and which the globals do not show
C21_Witness ==
    /\ gT = "c2"
    /\ pc["c2"] \in {"import", "await"}
    /\ Attempted("c2") = <<"core">>
    /\ running = "c1"
    /\ pc["c1"] = "main"
    /\ CurExt("c1").name = "app"
    /\ \E p \in ns["c1"].props : p = <<"app", "add", "native">>
    /\ \E p \in ns["c1"].props : p = <<"app", "serialize", "v8">>
    /\ ~HasExtension("app")
    /\ \A p \in ns["c2"].props : p[1] # "app"

=============================================================================
